---- MODULE Spec2Model ----
(***************************************************************************)
(* Finger-tracking snake game (src/main.py): the main loop as a state      *)
(* machine.  One action per event handled by the event loop and one per    *)
(* page update of a loop iteration.                                        *)
(*                                                                         *)
(* Units.  Screen coordinates that the code keeps as ints (target, food,   *)
(* rectangles) are in pixels.  Snake segments are floats in the code; the  *)
(* model keeps them in tenths of a pixel (SNAKE_SPEED is 6.5 px), and the  *)
(* float division of the move is rounded to the nearest tenth.  A move     *)
(* along an axis is exact in both.  Time is counted in ticks of            *)
(* 1/TicksPerSec seconds.                                                  *)
(***************************************************************************)
EXTENDS Integers, Sequences, FiniteSets, TLC

VARIABLES page, score, game_over, snake, target_pos, obstacles, food,
          running, ret, elapsed, pc

vars == <<page, score, game_over, snake, target_pos, obstacles, food,
          running, ret, elapsed, pc>>

\* the fields start_game assigns, apart from the clock
game == <<page, score, game_over, snake, target_pos, obstacles, food>>

-----------------------------------------------------------------------------
\* Configuration (src/main.py, CONFIG block)

CAM_W == 180
CAM_MARGIN_TOP == 10
FOOD_GAP_BELOW_CAM == 20
SNAKE_SPEED == 65
SEG_SPACING == 12
INITIAL_LEN == 7
HEAD_RADIUS == 12
FOOD_RADIUS == 12
TIME_LIMIT == 60
OBSTACLE_COUNT == 6
OBSTACLE_MIN == 40
OBSTACLE_MAX == 90
OBSTACLE_TRIES == 400
FOOD_TRIES == 800

\* screen.get_size() of a 640x480 fullscreen display
WIN_W == 640
WIN_H == 480

\* camera frame size of the warm-up frame (640x480)
FRAME_W == 640
FRAME_H == 480

CAM_H == (CAM_W * FRAME_H) \div FRAME_W
CAM_Y == CAM_MARGIN_TOP

PAGE_MAIN == 0
PAGE_GAME == 1
PAGE_END == 2

-----------------------------------------------------------------------------
\* Bounds of the model and the sets the inputs are drawn from

\* clock resolution: ticks per second
TicksPerSec == 5

\* time.time() advances by one of these numbers of ticks between two readings
Dts == {8, 296}

\* hand landmarks (index fingertip), in percent of the frame: <<lm.x, lm.y>>
Landmarks == {<<50, 100>>}

\* rectangles generate_obstacles may draw: <<x, y, w, h>>
RectChoices == {<<300, 220, 40, 40>>, <<180, 220, 40, 40>>}

\* coordinates spawn_food may draw, and offsets of its fallback
FoodXs == {320}
FoodYs == {150, 200, 360}
FallbackDraws == {-120}

-----------------------------------------------------------------------------
\* Arithmetic helpers

Px(n) == 10 * n

Max(a, b) == IF a > b THEN a ELSE b
Min(a, b) == IF a < b THEN a ELSE b
Abs(a) == IF a < 0 THEN -a ELSE a

\* a/b rounded to the nearest integer, b > 0
RoundDiv(a, b) == IF a >= 0 THEN (2 * a + b) \div (2 * b)
                            ELSE -((2 * (-a) + b) \div (2 * b))

\* floor of the square root of n by bisection, lo <= sqrt(n) <= hi
RECURSIVE IsqrtIter(_, _, _)
IsqrtIter(n, lo, hi) ==
    IF lo >= hi THEN lo
    ELSE LET mid == (lo + hi + 1) \div 2
         IN IF mid * mid <= n THEN IsqrtIter(n, mid, hi)
                              ELSE IsqrtIter(n, lo, mid - 1)

\* squared euclidean distance; math.hypot(a, b) < r is Hypot2(a, b) < r * r
Hypot2(a, b) == a * a + b * b

-----------------------------------------------------------------------------
\* pygame.Rect, as the record of its fields

Rect(x, y, w, h) == [x |-> x, y |-> y, w |-> w, h |-> h]

\* Rect.inflate: grows (shrinks) around the centre
inflate(r, dw, dh) == Rect(r.x - dw \div 2, r.y - dh \div 2, r.w + dw, r.h + dh)

\* Rect.colliderect: overlap, touching edges do not collide
colliderect(a, b) ==
    /\ a.x < b.x + b.w
    /\ b.x < a.x + a.w
    /\ a.y < b.y + b.h
    /\ b.y < a.y + a.h

\* Rect.collidepoint: left and top edges are inside, right and bottom are not
collidepoint(r, pt) ==
    /\ r.x <= pt[1] /\ pt[1] < r.x + r.w
    /\ r.y <= pt[2] /\ pt[2] < r.y + r.h

clamp(v, a, b) == Max(a, Min(b, v))

\* head in tenths of a pixel, rect in pixels
head_hits_rect(head, rect) ==
    LET cx == clamp(head[1], Px(rect.x), Px(rect.x + rect.w))
        cy == clamp(head[2], Px(rect.y), Px(rect.y + rect.h))
    IN Hypot2(head[1] - cx, head[2] - cy) < Px(HEAD_RADIUS + 2) * Px(HEAD_RADIUS + 2)

-----------------------------------------------------------------------------
\* generate_obstacles

\* the draws of one iteration: w, h, x, y within the randint ranges
ObstacleDraws ==
    { Rect(c[1], c[2], c[3], c[4]) : c \in
        { d \in RectChoices :
            /\ OBSTACLE_MIN <= d[3] /\ d[3] <= OBSTACLE_MAX
            /\ OBSTACLE_MIN <= d[4] /\ d[4] <= OBSTACLE_MAX
            /\ 30 <= d[1] /\ d[1] <= WIN_W - d[3] - 30
            /\ 120 <= d[2] /\ d[2] <= WIN_H - d[4] - 30 } }

\* one iteration of the while loop on every list the loop may hold
ObstacleStep(S, count) ==
    UNION { IF Len(rects) < count
            THEN { IF \E i \in 1..Len(rects) : colliderect(r, inflate(rects[i], 60, 60))
                   THEN rects
                   ELSE Append(rects, r) : r \in ObstacleDraws }
            ELSE {rects} : rects \in S }

\* the while loop on the set of lists it may hold after `tries` iterations; once
\* an iteration leaves the set as it is, so do the remaining ones
RECURSIVE ObstacleLoop(_, _, _)
ObstacleLoop(S, count, tries) ==
    IF tries < OBSTACLE_TRIES /\ ObstacleStep(S, count) # S
    THEN ObstacleLoop(ObstacleStep(S, count), count, tries + 1)
    ELSE S

\* the lists generate_obstacles(count) can return
generate_obstacles(count) == ObstacleLoop({<<>>}, count, 0)

-----------------------------------------------------------------------------
\* spawn_food

\* faulty variant: the gap below the camera band is left out
min_y_NoGap == LET m == CAM_Y + CAM_H
               IN IF m < 120 THEN 120 ELSE m

\* min_y of spawn_food
min_y == LET m == CAM_Y + CAM_H + FOOD_GAP_BELOW_CAM
         IN IF m < 120 THEN 120 ELSE m

\* the draws of one try
FoodDraws ==
    { pt \in FoodXs \X FoodYs :
        /\ 60 <= pt[1] /\ pt[1] <= WIN_W - 60
        /\ min_y <= pt[2] /\ pt[2] <= WIN_H - 60 }

\* the test of one try: outside every obstacle and at least 120 px from the head
FoodOk(pt, obs, snk) ==
    /\ \A i \in 1..Len(obs) : ~collidepoint(obs[i], pt)
    /\ ~(Hypot2(Px(pt[1]) - snk[1][1], Px(pt[2]) - snk[1][2]) < Px(120) * Px(120))

\* the return after the tries are used up
FoodFallback ==
    { <<WIN_W \div 2 + k, Max(min_y, WIN_H \div 2)>> :
        k \in { d \in FallbackDraws : -120 <= d /\ d <= 120 } }

\* the points spawn_food(obstacles, snake) can return.  Every try draws afresh:
\* a try returns any draw that passes the test, and the FOOD_TRIES tries run out
\* when each of them draws a point that fails it.
spawn_food(obs, snk) ==
    LET okpts == { pt \in FoodDraws : FoodOk(pt, obs, snk) }
        rejected == \E pt \in FoodDraws : ~FoodOk(pt, obs, snk)
    IN IF FOOD_TRIES > 0
       THEN okpts \cup (IF rejected THEN FoodFallback ELSE {})
       ELSE FoodFallback

-----------------------------------------------------------------------------
\* Game state

StartSnake ==
    [i \in 1..INITIAL_LEN |-> <<Px(WIN_W \div 2 - (i - 1) * SEG_SPACING), Px(WIN_H \div 2)>>]

StartTarget == <<WIN_W \div 2, WIN_H \div 2>>

\* the <<obstacles, food>> pairs the two random calls of start_game can give
StartDraws ==
    UNION { { <<obs, f>> : f \in spawn_food(obs, StartSnake) } :
            obs \in generate_obstacles(OBSTACLE_COUNT) }

Init ==
    /\ page = PAGE_MAIN
    /\ score = 0
    /\ game_over = FALSE
    /\ snake = StartSnake
    /\ target_pos = StartTarget
    /\ \E d \in StartDraws : obstacles = d[1] /\ food = d[2]
    /\ running = TRUE
    /\ ret = TRUE
    /\ elapsed = 0
    /\ pc = "loop"

start_game ==
    /\ page' = PAGE_GAME
    /\ score' = 0
    /\ elapsed' = 0
    /\ game_over' = FALSE
    /\ snake' = StartSnake
    /\ target_pos' = StartTarget
    /\ \E d \in StartDraws : obstacles' = d[1] /\ food' = d[2]

-----------------------------------------------------------------------------
\* The main loop: event handling

K_ESCAPE == "K_ESCAPE"
K_s == "K_s"
K_r == "K_r"
K_SPACE == "K_SPACE"

Keys == {K_ESCAPE, K_s, K_r, K_SPACE}

\* the generated START button: size (int(WIN_W*0.32), int(WIN_H*0.12)),
\* centred on (WIN_W//2, WIN_H//2 + 80)
start_btn_rect ==
    LET w == (WIN_W * 32) \div 100
        h == (WIN_H * 12) \div 100
    IN Rect(WIN_W \div 2 - w \div 2, WIN_H \div 2 + 80 - h \div 2, w, h)

\* mouse buttons and positions of a MOUSEBUTTONDOWN event
Buttons == {1, 3}
ClickPoints == {<<WIN_W \div 2, WIN_H \div 2 + 80>>, <<10, 10>>}

\* ev.type == pygame.QUIT
Quit ==
    /\ pc = "loop"
    /\ running' = FALSE
    /\ UNCHANGED <<game, ret, elapsed, pc>>

\* ev.type == pygame.KEYDOWN
KeyDown(key) ==
    /\ pc = "loop"
    /\ IF key = K_ESCAPE
       THEN running' = FALSE /\ UNCHANGED <<game, elapsed>>
       ELSE IF (key = K_s /\ page = PAGE_MAIN) \/ key = K_r
       THEN start_game /\ UNCHANGED running
       ELSE UNCHANGED <<game, elapsed, running>>
    /\ UNCHANGED <<ret, pc>>

\* ev.type == pygame.MOUSEBUTTONDOWN
MouseButtonDown(button, pos) ==
    /\ pc = "loop"
    /\ IF button = 1 /\ page = PAGE_MAIN /\ collidepoint(start_btn_rect, pos)
       THEN start_game
       ELSE UNCHANGED <<game, elapsed>>
    /\ UNCHANGED <<running, ret, pc>>

-----------------------------------------------------------------------------
\* The main loop: page updates

\* the while condition, tested after the iteration
LoopExit == pc' = IF running THEN "loop" ELSE "done"

\* PAGE_MAIN: draw the menu, continue
FrameMain ==
    /\ pc = "loop"
    /\ page = PAGE_MAIN
    /\ LoopExit
    /\ UNCHANGED <<game, running, ret, elapsed>>

\* PAGE_END: draw the end screen, continue
FrameEnd ==
    /\ pc = "loop"
    /\ page = PAGE_END
    /\ LoopExit
    /\ UNCHANGED <<game, running, ret, elapsed>>

\* int(): truncation toward zero of a/b, b > 0
Trunc(a, b) == IF a >= 0 THEN a \div b ELSE -((-a) \div b)

\* time_left = max(0, int(TIME_LIMIT - elapsed)), elapsed in ticks
TimeLeft(e) == Max(0, Trunc(TIME_LIMIT * TicksPerSec - e, TicksPerSec))

NoHand == <<>>
Hands == Landmarks \cup {NoHand}

\* the target after hands.process: the fingertip scaled to the window, or the
\* drift toward the centre when no hand is seen
NextTarget(hand, tgt) ==
    IF hand # NoHand
    THEN <<(hand[1] * WIN_W) \div 100, (hand[2] * WIN_H) \div 100>>
    ELSE <<(92 * tgt[1] + 4 * WIN_W) \div 100, (92 * tgt[2] + 4 * WIN_H) \div 100>>

\* the new head (nx, ny): SNAKE_SPEED toward the target when it is more than
\* 1 px away.  dist is taken in quarter tenths of a pixel; it lies between the
\* larger of |dx|, |dy| and their sum.
NewHead(head, tgt) ==
    LET dx == Px(tgt[1]) - head[1]
        dy == Px(tgt[2]) - head[2]
        d2 == Hypot2(dx, dy)
    IN IF d2 > Px(1) * Px(1)
       THEN LET dist4 == IsqrtIter(16 * d2, 4 * Max(Abs(dx), Abs(dy)), 4 * (Abs(dx) + Abs(dy)))
            IN <<head[1] + RoundDiv(dx * SNAKE_SPEED * 4, dist4),
                 head[2] + RoundDiv(dy * SNAKE_SPEED * 4, dist4)>>
       ELSE head

\* faulty variant: the tail is popped in every frame
MoveSnakeAlwaysPop(snk, n, sc) == <<n>> \o SubSeq(snk, 1, Len(snk) - 1)

\* snake.insert(0, (nx, ny)); pop the tail when longer than desired_len
MoveSnake(snk, n, sc) ==
    LET grown == <<n>> \o snk
        desired_len == INITIAL_LEN + sc
    IN IF Len(grown) > desired_len
       THEN SubSeq(grown, 1, Len(grown) - 1)
       ELSE grown

Eats(n, f) ==
    Hypot2(n[1] - Px(f[1]), n[2] - Px(f[2]))
        < Px(FOOD_RADIUS + HEAD_RADIUS) * Px(FOOD_RADIUS + HEAD_RADIUS)

HitsWall(n) ==
    \/ n[1] < Px(6)
    \/ n[2] < Px(6)
    \/ n[1] > Px(WIN_W - 6)
    \/ n[2] > Px(WIN_H - 6)

HitsObstacle(n, obs) ==
    \E i \in 1..Len(obs) : head_hits_rect(n, inflate(obs[i], -16, -16))

\* for i in range(9, len(snake))
HitsSelf(n, snk) ==
    \E i \in 10..Len(snk) :
        Hypot2(n[1] - snk[i][1], n[2] - snk[i][2]) < Px(HEAD_RADIUS - 6) * Px(HEAD_RADIUS - 6)

\* faulty variant: game over leads back to the menu
GameOverPageMenu == PAGE_MAIN

\* the page set by "handle game over"
GameOverPage == PAGE_END

\* faulty variant: no break, the frame falls through to "handle game over"
CameraFailNoBreak(dt) ==
    /\ pc = "loop"
    /\ page = PAGE_GAME
    /\ elapsed' = elapsed + dt
    /\ game_over' = (game_over \/ TimeLeft(elapsed') <= 0)
    /\ ret' = FALSE
    /\ running' = FALSE
    /\ pc' = "done"
    /\ page' = IF game_over' THEN GameOverPage ELSE page
    /\ UNCHANGED <<score, snake, target_pos, obstacles, food>>

\* PAGE_GAME, cap.read() fails: the timer has been tested, then break
FrameGameCameraFail(dt) ==
    /\ pc = "loop"
    /\ page = PAGE_GAME
    /\ elapsed' = elapsed + dt
    /\ game_over' = (game_over \/ TimeLeft(elapsed') <= 0)
    /\ ret' = FALSE
    /\ running' = FALSE
    /\ pc' = "done"
    /\ UNCHANGED <<page, score, snake, target_pos, obstacles, food>>

\* PAGE_GAME, cap.read() succeeds: timer, target, move, eat, collisions,
\* game over.  tgt is the new target_pos, n the new head (nx, ny), moved the
\* snake after insert and pop.
FrameGame(dt, hand) ==
    /\ pc = "loop"
    /\ page = PAGE_GAME
    /\ elapsed' = elapsed + dt
    /\ ret' = TRUE
    /\ \E tgt \in {NextTarget(hand, target_pos)} :
       \E n \in {NewHead(snake[1], tgt)} :
       \E moved \in {MoveSnake(snake, n, score)} :
          /\ target_pos' = tgt
          /\ snake' = moved
          /\ IF Eats(n, food)
             THEN score' = score + 1 /\ food' \in spawn_food(obstacles, moved)
             ELSE UNCHANGED <<score, food>>
          /\ game_over' = \/ game_over
                          \/ TimeLeft(elapsed') <= 0
                          \/ HitsWall(n)
                          \/ HitsObstacle(n, obstacles)
                          \/ HitsSelf(n, moved)
    /\ page' = IF game_over' THEN GameOverPage ELSE page
    /\ LoopExit
    /\ UNCHANGED <<obstacles, running>>

Next ==
    \/ Quit
    \/ \E key \in Keys : KeyDown(key)
    \/ \E button \in Buttons, pos \in ClickPoints : MouseButtonDown(button, pos)
    \/ FrameMain
    \/ \E dt \in Dts : FrameGameCameraFail(dt)
    \/ \E dt \in Dts, hand \in Hands : FrameGame(dt, hand)
    \/ FrameEnd

Spec == Init /\ [][Next]_vars

\* The loop when the camera keeps delivering frames and no R, Esc or QUIT
\* arrives: every iteration on PAGE_GAME runs a game frame, and clock.tick
\* returns, so game frames keep being executed.
NextLive ==
    \/ \E key \in {K_s, K_SPACE} : KeyDown(key)
    \/ \E button \in Buttons, pos \in ClickPoints : MouseButtonDown(button, pos)
    \/ FrameMain
    \/ \E dt \in Dts, hand \in Hands : FrameGame(dt, hand)
    \/ FrameEnd

LiveSpec ==
    /\ Init
    /\ [][NextLive]_vars
    /\ WF_vars(\E dt \in Dts, hand \in Hands : FrameGame(dt, hand))

-----------------------------------------------------------------------------
\* Properties

\* the head collides with a wall, an obstacle or the body
Collides(snk, obs) ==
    \/ HitsWall(snk[1])
    \/ HitsObstacle(snk[1], obs)
    \/ HitsSelf(snk[1], snk)

\* C1 as stated: on PAGE_GAME and PAGE_END, at every frame boundary,
\* len(snake) = INITIAL_LEN + score.
C1_LengthIsInitialPlusScore ==
    page \in {PAGE_GAME, PAGE_END} => Len(snake) = INITIAL_LEN + score

\* C1 amended: on PAGE_GAME and PAGE_END len(snake) is INITIAL_LEN + score or
\* one less; a step that changes the snake or the score leaves
\* len(snake) = INITIAL_LEN + score, except the frame in which food is eaten,
\* which leaves len(snake) = INITIAL_LEN + score - 1.
C1_LengthLagsEatenFrame ==
    /\ [](page \in {PAGE_GAME, PAGE_END} =>
            Len(snake) \in {INITIAL_LEN + score - 1, INITIAL_LEN + score})
    /\ [][ (page' \in {PAGE_GAME, PAGE_END} /\ <<snake, score>>' # <<snake, score>>) =>
            Len(snake') = INITIAL_LEN + score' - (IF score' = score + 1 THEN 1 ELSE 0) ]_vars

\* a frame after the one that ate: the snake has grown to INITIAL_LEN + score
C1_Grown ==
    page = PAGE_GAME /\ score = 1 /\ Len(snake) = INITIAL_LEN + 1

\* C2: the food lies in none of the obstacle rectangles.
C2_FoodOutsideObstacles ==
    \A i \in 1..Len(obstacles) : ~collidepoint(obstacles[i], food)

\* C3: the food's y is at least CAM_Y + CAM_H + FOOD_GAP_BELOW_CAM.
C3_FoodBelowCameraBand ==
    food[2] >= CAM_Y + CAM_H + FOOD_GAP_BELOW_CAM

\* food respawned after a meal, by the fallback return
C3_RespawnedByFallback ==
    page = PAGE_GAME /\ score > 0 /\ food \in FoodFallback

\* C4: an R key press received on PAGE_MAIN leaves the page PAGE_MAIN and the
\* game state unchanged.
C4_RestartKeyIgnoredOnMenu ==
    [][ (page = PAGE_MAIN /\ KeyDown(K_r)) => (page' = PAGE_MAIN /\ UNCHANGED game) ]_vars

\* C5: the frame in which cap.read() fails sets running to false, leaves the
\* loop, and leaves snake, score, food, obstacles and page as they were.
C5_CameraFailureStops ==
    [][ (ret /\ ~ret') =>
            /\ page = PAGE_GAME
            /\ ~running'
            /\ pc' = "done"
            /\ UNCHANGED <<snake, score, food, obstacles, page>> ]_vars

\* the loop was left by a failed read in a frame whose timer had run out
C5_StoppedByCamera ==
    pc = "done" /\ ~ret /\ page = PAGE_GAME /\ game_over

\* C6: every snake segment is on the screen.
C6_SnakeOnScreen ==
    \A i \in 1..Len(snake) :
        /\ 0 <= snake[i][1] /\ snake[i][1] <= Px(WIN_W)
        /\ 0 <= snake[i][2] /\ snake[i][2] <= Px(WIN_H)

\* C7: consecutive snake segments are SEG_SPACING apart.
C7_FixedSpacing ==
    \A i \in 1..(Len(snake) - 1) :
        Hypot2(snake[i][1] - snake[i + 1][1], snake[i][2] - snake[i + 1][2])
            = Px(SEG_SPACING) * Px(SEG_SPACING)

\* C8: while game frames keep running, a game on PAGE_GAME reaches PAGE_END, and
\* no frame leaves the page on PAGE_GAME once the countdown has reached 0.
C8_GameEnds ==
    /\ (page = PAGE_GAME) ~> (page = PAGE_END)
    /\ [](page = PAGE_GAME => TimeLeft(elapsed) > 0)

\* a game ended by the countdown alone
C8_EndedByTimer ==
    page = PAGE_END /\ game_over /\ TimeLeft(elapsed) <= 0 /\ ~Collides(snake, obstacles)

\* C9: a frame without collision sets game_over only when TIME_LIMIT seconds
\* have elapsed.
C9_TimerOnlyAtLimit ==
    [][ (page = PAGE_GAME /\ ~game_over /\ game_over' /\ ~Collides(snake', obstacles')) =>
            elapsed' >= TIME_LIMIT * TicksPerSec ]_vars

\* C10: right after start_game the head hits no obstacle.
C10_FreshGameSafe ==
    (page = PAGE_GAME /\ snake = StartSnake) => ~HitsObstacle(snake[1], obstacles)

====
